---- MODULE Spec2Model ----
(***************************************************************************)
(* Deck tracker: the in-memory card collection (deck.py, card.py) and the   *)
(* match ledger (matchups.py).                                             *)
(*                                                                         *)
(* A Python str is modelled as a sequence of one-character strings, so     *)
(* that strip / lower / split / join / isdigit / int / str are computed    *)
(* character by character as the interpreter does.  None is the empty      *)
(* tuple and a present optional value v is the one-element tuple <<v>>.    *)
(***************************************************************************)
EXTENDS Integers, Sequences, FiniteSets, TLC

\* cards  : Deck._cards, the dict in insertion order, a sequence of [key, entry]
\* matches: MatchupTracker._matches, the Match objects in list order
\* op     : the method called last
\* branch : the path that call took through the method
\* ret    : the value that call returned
VARIABLES cards, matches, op, branch, ret

vars == <<cards, matches, op, branch, ret>>

(***************************************************************************)
(* Optional values                                                         *)
(***************************************************************************)
None == <<>>

Some(v) == <<v>>

IsNone(o) == o = <<>>

Val(o) == o[1]

(***************************************************************************)
(* Characters                                                              *)
(***************************************************************************)
LowerLetters == <<"a", "b", "c", "d", "k", "l", "n", "o", "r", "u", "w", "x">>

UpperLetters == <<"A", "B", "C", "D", "K", "L", "N", "O", "R", "U", "W", "X">>

DigitChars == <<"0", "1", "2", "3", "4", "5", "6", "7", "8", "9">>

\* The characters of the model in code-point order (str comparison order).
CodeOrder == <<"\t", " ">> \o DigitChars \o <<"?">> \o UpperLetters \o LowerLetters

Whitespace == {"\t", " "}

IndexOf(c, s) == CHOOSE i \in 1..Len(s) : s[i] = c

InSeq(c, s) == \E i \in 1..Len(s) : s[i] = c

Code(c) == IndexOf(c, CodeOrder)

LowerChar(c) == IF InSeq(c, UpperLetters) THEN LowerLetters[IndexOf(c, UpperLetters)] ELSE c

UpperChar(c) == IF InSeq(c, LowerLetters) THEN UpperLetters[IndexOf(c, LowerLetters)] ELSE c

IsDigitChar(c) == InSeq(c, DigitChars)

DigitValue(c) == IndexOf(c, DigitChars) - 1

(***************************************************************************)
(* str methods                                                             *)
(***************************************************************************)
RECURSIVE lstrip(_)
lstrip(s) == IF s # <<>> /\ Head(s) \in Whitespace THEN lstrip(Tail(s)) ELSE s

RECURSIVE rstrip(_)
rstrip(s) == IF s # <<>> /\ s[Len(s)] \in Whitespace THEN rstrip(SubSeq(s, 1, Len(s) - 1)) ELSE s

strip(s) == rstrip(lstrip(s))

lower(s) == [i \in 1..Len(s) |-> LowerChar(s[i])]

upper(s) == [i \in 1..Len(s) |-> UpperChar(s[i])]

\* str.split() without a separator: the maximal runs of non-whitespace.
RECURSIVE splitFrom(_, _, _)
splitFrom(s, word, words) ==
    IF s = <<>> THEN (IF word = <<>> THEN words ELSE Append(words, word))
    ELSE IF Head(s) \in Whitespace
         THEN splitFrom(Tail(s), <<>>, IF word = <<>> THEN words ELSE Append(words, word))
         ELSE splitFrom(Tail(s), Append(word, Head(s)), words)

split(s) == splitFrom(s, <<>>, <<>>)

RECURSIVE join(_, _)
join(sep, words) ==
    IF words = <<>> THEN <<>>
    ELSE IF Len(words) = 1 THEN words[1]
    ELSE words[1] \o sep \o join(sep, Tail(words))

isdigit(s) == s # <<>> /\ \A i \in 1..Len(s) : IsDigitChar(s[i])

\* int(s) for a string of decimal digits.
RECURSIVE int(_)
int(s) == IF s = <<>> THEN 0 ELSE 10 * int(SubSeq(s, 1, Len(s) - 1)) + DigitValue(s[Len(s)])

\* str(n) for n >= 0.
RECURSIVE str(_)
str(n) == IF n < 10 THEN <<DigitChars[n + 1]>> ELSE str(n \div 10) \o <<DigitChars[(n % 10) + 1]>>

\* a < b for str: lexicographic by code point.
RECURSIVE StrLess(_, _)
StrLess(a, b) ==
    IF b = <<>> THEN FALSE
    ELSE IF a = <<>> THEN TRUE
    ELSE IF Head(a) = Head(b) THEN StrLess(Tail(a), Tail(b))
    ELSE Code(Head(a)) < Code(Head(b))

\* "needle in hay" for str.
Contains(needle, hay) ==
    \E i \in 1..(Len(hay) + 1) :
        /\ i + Len(needle) - 1 <= Len(hay)
        /\ SubSeq(hay, i, i + Len(needle) - 1) = needle

(***************************************************************************)
(* card.py                                                                 *)
(***************************************************************************)
normalize_name(name) == join(<<" ">>, split(lower(strip(name))))

parse_mana_cost(raw) ==
    LET s == strip(raw)
        up == upper(s)
        has_x == InSeq("X", up)
        digits == SelectSeq(s, IsDigitChar)
        NotSpace(c) == c # " "
    IN  IF s = <<>> THEN [numeric |-> None, has_x |-> FALSE, display |-> <<>>]
        ELSE IF up = <<"X">> THEN [numeric |-> None, has_x |-> TRUE, display |-> <<"X">>]
        ELSE IF isdigit(s) THEN [numeric |-> Some(int(s)), has_x |-> FALSE, display |-> s]
        ELSE [numeric |-> IF digits # <<>> THEN Some(int(digits)) ELSE None,
              has_x |-> has_x,
              display |-> SelectSeq(up, NotSpace)]

CardEntry(name, mana_cost_raw, card_type, qty) ==
    [name |-> name, mana_cost_raw |-> mana_cost_raw, card_type |-> card_type, qty |-> qty]

entry_key(e) == normalize_name(e.name)

entry_has_x(e) == parse_mana_cost(e.mana_cost_raw).has_x

entry_numeric_cost(e) == parse_mana_cost(e.mana_cost_raw).numeric

(***************************************************************************)
(* dict[str, CardEntry]: insertion-ordered, one slot per key               *)
(***************************************************************************)
HasKey(d, k) == \E i \in 1..Len(d) : d[i].key = k

Pos(d, k) == CHOOSE i \in 1..Len(d) : d[i].key = k

\* d[k]
Lookup(d, k) == d[Pos(d, k)].entry

\* d[k] = e : an existing key keeps its slot, a new key goes last.
DictSet(d, k, e) ==
    IF HasKey(d, k) THEN [d EXCEPT ![Pos(d, k)].entry = e]
    ELSE Append(d, [key |-> k, entry |-> e])

\* del d[k]
DictDel(d, k) == SubSeq(d, 1, Pos(d, k) - 1) \o SubSeq(d, Pos(d, k) + 1, Len(d))

\* list(d.values())
Values(d) == [i \in 1..Len(d) |-> d[i].entry]

(***************************************************************************)
(* deck.py: core CRUD.  Each method is an operator from the dict before    *)
(* the call to [cards: the dict after, branch: the path taken, ret: the    *)
(* value returned].                                                        *)
(***************************************************************************)
Outcome(d, b, r) == [cards |-> d, branch |-> b, ret |-> r]

\* add_card, were a merge to store the new entry with the summed quantity.
add_card_overwrite(d, name, mana_cost, card_type, qty) ==
    IF qty <= 0 THEN Outcome(d, "noop", None)
    ELSE LET entry == CardEntry(strip(name), strip(mana_cost), strip(card_type), qty)
             key == entry_key(entry)
         IN  IF HasKey(d, key)
             THEN Outcome(DictSet(d, key, [entry EXCEPT !.qty = @ + Lookup(d, key).qty]),
                          "merge", None)
             ELSE Outcome(DictSet(d, key, entry), "insert", None)

\* add_card, were the test of qty <= 0 missing.
add_card_no_guard(d, name, mana_cost, card_type, qty) ==
    LET entry == CardEntry(strip(name), strip(mana_cost), strip(card_type), qty)
        key == entry_key(entry)
    IN  IF HasKey(d, key)
        THEN Outcome([d EXCEPT ![Pos(d, key)].entry.qty = @ + qty], "merge", None)
        ELSE Outcome(DictSet(d, key, entry), "insert", None)

add_card(d, name, mana_cost, card_type, qty) ==
    IF qty <= 0 THEN Outcome(d, "noop", None)
    ELSE LET entry == CardEntry(strip(name), strip(mana_cost), strip(card_type), qty)
             key == entry_key(entry)
         IN  IF HasKey(d, key)
             THEN Outcome([d EXCEPT ![Pos(d, key)].entry.qty = @ + qty], "merge", None)
             ELSE Outcome(DictSet(d, key, entry), "insert", None)

\* remove_one, were the entry left in the dict at quantity zero.
remove_one_keep_zero(d, name) ==
    LET key == normalize_name(name)
    IN  IF ~HasKey(d, key) THEN Outcome(d, "absent", FALSE)
        ELSE Outcome([d EXCEPT ![Pos(d, key)].entry.qty = @ - 1], "decrement", TRUE)

\* remove_one, were the entry deleted whatever its quantity.
remove_one_delete_all(d, name) ==
    LET key == normalize_name(name)
    IN  IF ~HasKey(d, key) THEN Outcome(d, "absent", FALSE)
        ELSE Outcome(DictDel(d, key), "delete", TRUE)

remove_one(d, name) ==
    LET key == normalize_name(name)
    IN  IF ~HasKey(d, key) THEN Outcome(d, "absent", FALSE)
        ELSE LET dec == [d EXCEPT ![Pos(d, key)].entry.qty = @ - 1]
             IN  IF Lookup(dec, key).qty <= 0
                 THEN Outcome(DictDel(dec, key), "delete", TRUE)
                 ELSE Outcome(dec, "decrement", TRUE)

set_quantity(d, name, qty) ==
    LET key == normalize_name(name)
    IN  IF ~HasKey(d, key) THEN Outcome(d, "absent", FALSE)
        ELSE IF qty <= 0 THEN Outcome(DictDel(d, key), "delete", TRUE)
        ELSE Outcome([d EXCEPT ![Pos(d, key)].entry.qty = qty], "set", TRUE)

\* update_card, were the keywords tested for truth (`if mana_cost:`) and not
\* against None.
update_card_truthy(d, name, mana_cost, card_type) ==
    LET key == normalize_name(name)
    IN  IF ~HasKey(d, key) THEN Outcome(d, "absent", FALSE)
        ELSE LET d1 == IF ~IsNone(mana_cost) /\ Val(mana_cost) # <<>>
                       THEN [d EXCEPT ![Pos(d, key)].entry.mana_cost_raw = strip(Val(mana_cost))]
                       ELSE d
                 d2 == IF ~IsNone(card_type) /\ Val(card_type) # <<>>
                       THEN [d1 EXCEPT ![Pos(d, key)].entry.card_type = strip(Val(card_type))]
                       ELSE d1
             IN  Outcome(d2, "update", TRUE)

\* mana_cost and card_type are optional: None when the keyword is omitted.
update_card(d, name, mana_cost, card_type) ==
    LET key == normalize_name(name)
    IN  IF ~HasKey(d, key) THEN Outcome(d, "absent", FALSE)
        ELSE LET d1 == IF ~IsNone(mana_cost)
                       THEN [d EXCEPT ![Pos(d, key)].entry.mana_cost_raw = strip(Val(mana_cost))]
                       ELSE d
                 d2 == IF ~IsNone(card_type)
                       THEN [d1 EXCEPT ![Pos(d, key)].entry.card_type = strip(Val(card_type))]
                       ELSE d1
             IN  Outcome(d2, "update", TRUE)

\* rename_card, were the renamed entry put back under the old key.
rename_card_stale_key(d, old_name, new_name) ==
    LET old_key == normalize_name(old_name)
    IN  IF ~HasKey(d, old_key) THEN Outcome(d, "absent", FALSE)
        ELSE LET entry == [Lookup(d, old_key) EXCEPT !.name = strip(new_name)]
             IN  Outcome(DictSet(DictDel(d, old_key), old_key, entry), "move", TRUE)

\* rename_card, were the collision not merged: the renamed entry replaces the
\* entry already under the new key.
rename_card_overwrite(d, old_name, new_name) ==
    LET old_key == normalize_name(old_name)
    IN  IF ~HasKey(d, old_key) THEN Outcome(d, "absent", FALSE)
        ELSE LET popped == DictDel(d, old_key)
                 entry == [Lookup(d, old_key) EXCEPT !.name = strip(new_name)]
             IN  Outcome(DictSet(popped, entry_key(entry), entry),
                         IF HasKey(popped, entry_key(entry)) THEN "merge" ELSE "move", TRUE)

rename_card(d, old_name, new_name) ==
    LET old_key == normalize_name(old_name)
    IN  IF ~HasKey(d, old_key) THEN Outcome(d, "absent", FALSE)
        ELSE LET popped == DictDel(d, old_key)
                 entry == [Lookup(d, old_key) EXCEPT !.name = strip(new_name)]
                 new_key == entry_key(entry)
             IN  IF HasKey(popped, new_key)
                 THEN Outcome([popped EXCEPT ![Pos(popped, new_key)].entry.qty = @ + entry.qty],
                              "merge", TRUE)
                 ELSE Outcome(DictSet(popped, new_key, entry), "move", TRUE)

get(d, name) ==
    LET key == normalize_name(name)
    IN  IF HasKey(d, key) THEN Some(Lookup(d, key)) ELSE None

all_entries(d) == Values(d)

RECURSIVE SumQty(_)
SumQty(es) == IF es = <<>> THEN 0 ELSE Head(es).qty + SumQty(Tail(es))

deck_size(d) == SumQty(Values(d))

(***************************************************************************)
(* deck.py: stats                                                          *)
(***************************************************************************)
cost_bucket(e) ==
    IF entry_has_x(e) THEN <<"X">>
    ELSE LET nc == entry_numeric_cost(e)
         IN  IF ~IsNone(nc) THEN str(Val(nc)) ELSE <<"?">>

\* counts[label] = counts.get(label, 0) + qty, over <<label, qty>> pairs in order.
\* counts is itself a dict: a sequence of [key, entry] with entry the count.
\* CountInto, were a count replaced by the quantity instead of raised by it.
RECURSIVE CountInto_overwrite(_, _)
CountInto_overwrite(counts, pairs) ==
    IF pairs = <<>> THEN counts
    ELSE CountInto_overwrite(DictSet(counts, Head(pairs)[1], Head(pairs)[2]), Tail(pairs))

RECURSIVE CountInto(_, _)
CountInto(counts, pairs) ==
    IF pairs = <<>> THEN counts
    ELSE LET b == Head(pairs)[1]
             old == IF HasKey(counts, b) THEN Lookup(counts, b) ELSE 0
         IN  CountInto(DictSet(counts, b, old + Head(pairs)[2]), Tail(pairs))

\* sorted(items, key=Key): the key of each item is computed once, and the sort is
\* stable: an item comes after the items whose key is less than its own and after
\* the earlier items whose key its own is not less than.
SortedBy(s, Key(_), Less(_, _)) ==
    LET n == Len(s)
        keys == [i \in 1..n |-> Key(s[i])]
        rank == [i \in 1..n |->
                    1 + Cardinality({ j \in 1..n :
                            \/ Less(keys[j], keys[i])
                            \/ (j < i /\ ~Less(keys[i], keys[j])) })]
    IN  [r \in 1..n |-> s[CHOOSE i \in 1..n : rank[i] = r]]

\* The order of tuples (bool, bool, str): False before True, then str order.
BoolBoolStrLess(kx, ky) ==
    IF kx[1] # ky[1] THEN ky[1]
    ELSE IF kx[2] # ky[2] THEN ky[2]
    ELSE StrLess(kx[3], ky[3])

\* cost_counts_key, were the buckets sorted by their label alone.
cost_counts_key_label(kv) == <<FALSE, FALSE, kv.key>>

\* key=lambda kv: (kv[0] != "X", kv[0] == "?", kv[0])
cost_counts_key(kv) == <<kv.key # <<"X">>, kv.key = <<"?">>, kv.key>>

cost_counts(d) ==
    LET es == Values(d)
        pairs == [i \in 1..Len(es) |-> <<cost_bucket(es[i]), es[i].qty>>]
    IN  SortedBy(CountInto(<<>>, pairs), cost_counts_key, BoolBoolStrLess)

(***************************************************************************)
(* deck.py: search / filter                                                *)
(***************************************************************************)
\* bool(x) of an optional str: None and "" are falsy.
Truthy(o) == ~IsNone(o) /\ Val(o) # <<>>

\* FilterKeeps, were the test `cost_filter_used and e.has_x` missing.
FilterKeeps_x_by_number(e, p) ==
    LET nc == IF Truthy(p.name_contains) THEN Some(normalize_name(Val(p.name_contains))) ELSE None
        tc == IF Truthy(p.type_contains) THEN Some(lower(strip(Val(p.type_contains)))) ELSE None
        cost == parse_mana_cost(e.mana_cost_raw)
    IN  /\ ~(Truthy(nc) /\ ~Contains(Val(nc), normalize_name(e.name)))
        /\ ~(Truthy(tc) /\ ~Contains(Val(tc), lower(e.card_type)))
        /\ ~(~IsNone(p.has_x) /\ cost.has_x # Val(p.has_x))
        /\ ~(~IsNone(p.cost_eq) /\ cost.numeric # p.cost_eq)
        /\ ~(~IsNone(p.cost_lte) /\ (IsNone(cost.numeric) \/ Val(cost.numeric) > Val(p.cost_lte)))
        /\ ~(~IsNone(p.cost_gte) /\ (IsNone(cost.numeric) \/ Val(cost.numeric) < Val(p.cost_gte)))

\* The tests of the loop body: TRUE when no `continue` is taken for e.
\* p is the keyword arguments, each optional one None when omitted.
FilterKeeps(e, p) ==
    LET nc == IF Truthy(p.name_contains) THEN Some(normalize_name(Val(p.name_contains))) ELSE None
        tc == IF Truthy(p.type_contains) THEN Some(lower(strip(Val(p.type_contains)))) ELSE None
        cost_filter_used == ~IsNone(p.cost_eq) \/ ~IsNone(p.cost_lte) \/ ~IsNone(p.cost_gte)
        cost == parse_mana_cost(e.mana_cost_raw)
    IN  /\ ~(Truthy(nc) /\ ~Contains(Val(nc), normalize_name(e.name)))
        /\ ~(Truthy(tc) /\ ~Contains(Val(tc), lower(e.card_type)))
        /\ ~(~IsNone(p.has_x) /\ cost.has_x # Val(p.has_x))
        /\ ~(cost_filter_used /\ cost.has_x)
        /\ ~(~IsNone(p.cost_eq) /\ cost.numeric # p.cost_eq)
        /\ ~(~IsNone(p.cost_lte) /\ (IsNone(cost.numeric) \/ Val(cost.numeric) > Val(p.cost_lte)))
        /\ ~(~IsNone(p.cost_gte) /\ (IsNone(cost.numeric) \/ Val(cost.numeric) < Val(p.cost_gte)))

\* key=lambda x: normalize_name(x.name)
name_key(e) == normalize_name(e.name)

\* key=lambda x: ((x.card_type or "").lower(), normalize_name(x.name))
type_key(e) == <<lower(e.card_type), normalize_name(e.name)>>

StrStrLess(kx, ky) ==
    IF kx[1] # ky[1] THEN StrLess(kx[1], ky[1]) ELSE StrLess(kx[2], ky[2])

\* cost_key: (2, 0, key) with an X, (1, 999, key) without a number, (0, number, key).
cost_key(e) ==
    LET cost == parse_mana_cost(e.mana_cost_raw)
    IN  IF cost.has_x THEN <<2, 0, normalize_name(e.name)>>
        ELSE IF IsNone(cost.numeric) THEN <<1, 999, normalize_name(e.name)>>
        ELSE <<0, Val(cost.numeric), normalize_name(e.name)>>

IntIntStrLess(kx, ky) ==
    IF kx[1] # ky[1] THEN kx[1] < ky[1]
    ELSE IF kx[2] # ky[2] THEN kx[2] < ky[2]
    ELSE StrLess(kx[3], ky[3])

filter_entries(d, p) ==
    LET Keep(e) == FilterKeeps(e, p)
        results == SelectSeq(Values(d), Keep)
    IN  IF p.sort_by = "type" THEN SortedBy(results, type_key, StrStrLess)
        ELSE IF p.sort_by = "cost" THEN SortedBy(results, cost_key, IntIntStrLess)
        ELSE SortedBy(results, name_key, StrLess)

(***************************************************************************)
(* card.py, deck.py: persistence (read side)                               *)
(*                                                                         *)
(* A document is [kind, items].  kind is what json.load meets:             *)
(*   "missing"    no file at the path                                      *)
(*   "unreadable" open or json.load raises (OSError, JSONDecodeError,      *)
(*                UnicodeDecodeError)                                      *)
(*   "scalar"     the top level is neither an object nor a list            *)
(*   "object"     {"cards": items}                                         *)
(*   "no_cards"   an object without "cards"                                *)
(*   "cards_not_list"  an object whose "cards" is not a list               *)
(*   "list"       the old format, items at the top level                   *)
(* An item is [is_dict, name, mana_cost, card_type, qty]; the three        *)
(* strings are optional (None: the field is absent) and qty is             *)
(* [tag, val] with tag "missing", "int", "bad_str" (a string int() rejects *)
(* with ValueError) or "null" (int(None) raises TypeError).                *)
(***************************************************************************)
QtyMissing == [tag |-> "missing", val |-> 0]

QtyInt(n) == [tag |-> "int", val |-> n]

QtyBadStr == [tag |-> "bad_str", val |-> 0]

QtyNull == [tag |-> "null", val |-> 0]

\* int(d.get("qty", 1)) raises for this item.
from_dict_raises(item) == item.qty.tag \in {"bad_str", "null"}

from_dict(item) ==
    LET field(o) == strip(IF IsNone(o) THEN <<>> ELSE Val(o))
        qty == IF item.qty.tag = "missing" THEN 1 ELSE item.qty.val
    IN  CardEntry(field(item.name), field(item.mana_cost), field(item.card_type),
                  IF qty < 1 THEN 1 ELSE qty)

\* The for loop of load: [raised, cards].
RECURSIVE LoadItems(_, _)
LoadItems(d, items) ==
    IF items = <<>> THEN [raised |-> FALSE, cards |-> d]
    ELSE IF ~Head(items).is_dict THEN LoadItems(d, Tail(items))
    ELSE IF from_dict_raises(Head(items)) THEN [raised |-> TRUE, cards |-> d]
    ELSE LET entry == from_dict(Head(items))
         IN  LoadItems(DictSet(d, entry_key(entry), entry), Tail(items))

load(doc) ==
    IF doc.kind = "missing" THEN Outcome(<<>>, "missing", None)
    ELSE IF doc.kind = "unreadable" THEN Outcome(<<>>, "except", None)
    ELSE IF doc.kind \notin {"object", "no_cards", "cards_not_list", "list"}
         THEN Outcome(<<>>, "bad_shape", None)
    ELSE IF doc.kind = "cards_not_list" THEN Outcome(<<>>, "bad_shape", None)
    ELSE LET items == IF doc.kind = "no_cards" THEN <<>> ELSE doc.items
             loaded == LoadItems(<<>>, items)
         IN  IF loaded.raised THEN Outcome(<<>>, "except", None)
             ELSE Outcome(loaded.cards, "loaded", None)

(***************************************************************************)
(* Bounds and inputs                                                       *)
(***************************************************************************)
\* Largest quantity an entry may reach (Python's int is unbounded).
MaxQty == 2

WithinBounds(d) == \A i \in 1..Len(d) : d[i].entry.qty <= MaxQty

\* Names given to the methods: "a" and " A", which share the key "a", and
\* "a  B ", whose key is "a b".
Names == { <<"a">>, <<" ", "A">>, <<"a", " ", " ", "B", " ">> }

\* Mana costs given to add_card: " X" and "1".
Costs == { <<" ", "X">>, <<"1">> }

\* Card types given to add_card: "L ".
Types == { <<"L", " ">> }

\* Quantities given to add_card and set_quantity.
Qtys == { -1, 0, 1, 2 }

\* Keyword arguments of update_card: omitted, "" or a value with whitespace.
OptCosts == { None, Some(<<>>), Some(<<" ", "X">>) }

OptTypes == { None, Some(<<>>) }

Item(name, qty) ==
    [is_dict |-> TRUE, name |-> name, mana_cost |-> Some(<<"1">>),
     card_type |-> None, qty |-> qty]

NotADict ==
    [is_dict |-> FALSE, name |-> None, mana_cost |-> None, card_type |-> None,
     qty |-> QtyMissing]

\* Items of the documents read by load.
Items ==
    { Item(Some(<<"a">>), QtyMissing),
      Item(Some(<<" ", "A">>), QtyInt(-1)),
      Item(Some(<<"a", " ", " ", "B", " ">>), QtyInt(2)),
      Item(Some(<<"a">>), QtyBadStr),
      NotADict }

Doc(kind, items) == [kind |-> kind, items |-> items]

\* Documents: the shapes without items, both formats with one item, and the new
\* format with a second item after a card "a".
Docs ==
    { Doc(k, <<>>) : k \in {"missing", "unreadable", "scalar", "no_cards", "cards_not_list"} }
    \cup { Doc(k, <<i>>) : k \in {"object", "list"}, i \in Items }
    \cup { Doc("object", <<Item(Some(<<"a">>), QtyInt(2)), j>>) : j \in Items }

(***************************************************************************)
(* Actions: one per method of Deck                                         *)
(***************************************************************************)
\* Every action leaves in ret what the call returned and in branch the path it
\* took.  WithinBounds keeps quantities up to MaxQty.
AddCard(name, mana_cost, card_type, qty) ==
    LET o == add_card(cards, name, mana_cost, card_type, qty)
    IN  /\ WithinBounds(o.cards)
        /\ cards' = o.cards
        /\ op' = "add_card"
        /\ branch' = o.branch
        /\ ret' = o.ret
        /\ UNCHANGED matches

RemoveOne(name) ==
    LET o == remove_one(cards, name)
    IN  /\ cards' = o.cards
        /\ op' = "remove_one"
        /\ branch' = o.branch
        /\ ret' = o.ret
        /\ UNCHANGED matches

SetQuantity(name, qty) ==
    LET o == set_quantity(cards, name, qty)
    IN  /\ WithinBounds(o.cards)
        /\ cards' = o.cards
        /\ op' = "set_quantity"
        /\ branch' = o.branch
        /\ ret' = o.ret
        /\ UNCHANGED matches

UpdateCard(name, mana_cost, card_type) ==
    LET o == update_card(cards, name, mana_cost, card_type)
    IN  /\ cards' = o.cards
        /\ op' = "update_card"
        /\ branch' = o.branch
        /\ ret' = o.ret
        /\ UNCHANGED matches

RenameCard(old_name, new_name) ==
    LET o == rename_card(cards, old_name, new_name)
    IN  /\ WithinBounds(o.cards)
        /\ cards' = o.cards
        /\ op' = "rename_card"
        /\ branch' = o.branch
        /\ ret' = o.ret
        /\ UNCHANGED matches

\* deck = Deck.load(path)
Load(doc) ==
    LET o == load(doc)
    IN  /\ WithinBounds(o.cards)
        /\ cards' = o.cards
        /\ op' = "load"
        /\ branch' = o.branch
        /\ ret' = o.ret
        /\ UNCHANGED matches

FilterEntries(p) ==
    LET o == Outcome(cards, "query", filter_entries(cards, p))
    IN  /\ cards' = o.cards
        /\ op' = "filter_entries"
        /\ branch' = o.branch
        /\ ret' = o.ret
        /\ UNCHANGED matches

CostCounts ==
    LET o == Outcome(cards, "query", cost_counts(cards))
    IN  /\ cards' = o.cards
        /\ op' = "cost_counts"
        /\ branch' = o.branch
        /\ ret' = o.ret
        /\ UNCHANGED matches

Init ==
    /\ cards = <<>>
    /\ matches = <<>>
    /\ op = "init"
    /\ branch = "init"
    /\ ret = None

Next ==
    \/ \E n \in Names, c \in Costs, t \in Types, q \in Qtys : AddCard(n, c, t, q)
    \/ \E n \in Names : RemoveOne(n)
    \/ \E n \in Names, q \in Qtys : SetQuantity(n, q)
    \/ \E n \in Names, c \in OptCosts, t \in OptTypes : UpdateCard(n, c, t)
    \/ \E n \in Names, m \in Names : RenameCard(n, m)
    \/ \E doc \in Docs : Load(doc)

Spec == Init /\ [][Next]_vars

(***************************************************************************)
(* Properties of the collection                                            *)
(***************************************************************************)
\* The slots of d that hold key k.
SlotsOf(d, k) == { i \in 1..Len(d) : d[i].key = k }

\* The entries of d other than the one under key k.
Others(d, k) == { d[i] : i \in 1..Len(d) \ SlotsOf(d, k) }

\* C1: an add_card with qty > 0 leaves exactly one entry under the key of the
\* name, which get returns for every spelling of that key; when the key was
\* absent the entry is the trimmed name, cost and type with the given quantity,
\* and when it was present the entry keeps its name, cost and type and its
\* quantity grows by the given quantity.  By induction over the calls the
\* quantity is the sum of the added quantities and the other fields are those
\* of the first add.
C1_AddMerges ==
    [][op' = "add_card" =>
        \A n \in Names, c \in Costs, t \in Types, q \in Qtys :
            (q > 0 /\ AddCard(n, c, t, q)) =>
                LET k == normalize_name(n)
                    expected ==
                        IF HasKey(cards, k)
                        THEN [Lookup(cards, k) EXCEPT !.qty = @ + q]
                        ELSE [name |-> strip(n), mana_cost_raw |-> strip(c),
                              card_type |-> strip(t), qty |-> q]
                IN  /\ Cardinality(SlotsOf(cards', k)) = 1
                    /\ \A m \in Names :
                           normalize_name(m) = k => get(cards', m) = Some(expected)
                    /\ Others(cards', k) = Others(cards, k)]_vars

\* C1 witness: an add has merged into an entry spelled otherwise than its key.
C1_Witness ==
    /\ op = "add_card"
    /\ branch = "merge"
    /\ \E i \in 1..Len(cards) :
           /\ cards[i].entry.qty = 2
           /\ cards[i].entry.name = <<"A">>

\* C2: every stored entry has a quantity of at least 1.
C2_PositiveQuantity == \A i \in 1..Len(cards) : cards[i].entry.qty >= 1

\* C2 witness: a removal took an entry to zero and deleted it, another entry stays.
C2_Witness ==
    /\ op = "remove_one"
    /\ branch = "delete"
    /\ cards # <<>>

\* C3: no two stored entries share a key, every entry is stored under the key of
\* its current name, and get finds a name exactly when a stored name has its key.
C3_UniqueKeys ==
    /\ \A i, j \in 1..Len(cards) : cards[i].key = cards[j].key => i = j
    /\ \A i \in 1..Len(cards) : cards[i].key = normalize_name(cards[i].entry.name)
    /\ \A n \in Names :
           ~IsNone(get(cards, n)) <=>
               \E i \in 1..Len(cards) :
                   normalize_name(cards[i].entry.name) = normalize_name(n)

\* C3 witness: a rename moved an entry to a new key beside another entry.
C3_Witness ==
    /\ op = "rename_card"
    /\ branch = "move"
    /\ Len(cards) = 2
    /\ cards[2].entry.name = <<"a", " ", " ", "B">>
    /\ cards[2].entry.mana_cost_raw # cards[1].entry.mana_cost_raw

\* C4: a rename of a present name onto the key of another entry returns True,
\* leaves that entry with the sum of both quantities and its own name, cost and
\* type, leaves nothing under the old key and keeps the deck size.
C4_RenameMerges ==
    [][op' = "rename_card" =>
        \A o \in Names, n \in Names :
            LET old_key == normalize_name(o)
                new_key == normalize_name(n)
            IN  ( /\ HasKey(cards, old_key)
                  /\ new_key # old_key
                  /\ HasKey(cards, new_key)
                  /\ RenameCard(o, n) ) =>
                    /\ ret' = TRUE
                    /\ get(cards', n) =
                           Some([Lookup(cards, new_key) EXCEPT
                                    !.qty = @ + Lookup(cards, old_key).qty])
                    /\ IsNone(get(cards', o))
                    /\ SlotsOf(cards', old_key) = {}
                    /\ deck_size(cards') = deck_size(cards)]_vars

\* C4 witness: a rename has merged two entries into one of quantity 2.
C4_Witness ==
    /\ op = "rename_card"
    /\ branch = "merge"
    /\ ret = TRUE
    /\ Len(cards) = 1
    /\ cards[1].entry.qty = 2

\* C5: remove_one of a present name returns True and lowers the deck size by 1;
\* an entry of quantity 1 is gone afterwards, an entry of a larger quantity stays
\* with one less and its other fields; every other entry is unchanged.
C5_RemoveOne ==
    [][op' = "remove_one" =>
        \A n \in Names :
            LET k == normalize_name(n)
            IN  (HasKey(cards, k) /\ RemoveOne(n)) =>
                    /\ ret' = TRUE
                    /\ deck_size(cards') = deck_size(cards) - 1
                    /\ Lookup(cards, k).qty = 1 => IsNone(get(cards', n))
                    /\ Lookup(cards, k).qty > 1 =>
                           get(cards', n) = Some([Lookup(cards, k) EXCEPT !.qty = @ - 1])
                    /\ Others(cards', k) = Others(cards, k)]_vars

\* C5 witness: a removal has decremented an entry that stays in the deck.
C5_Witness ==
    /\ op = "remove_one"
    /\ branch = "decrement"
    /\ ret = TRUE
    /\ \E i \in 1..Len(cards) : cards[i].entry.qty = 1

\* C6: remove_one, set_quantity, update_card and rename_card of an absent name
\* return False and leave the dict as it was, and so does add_card with a
\* quantity of zero or less.
C6_NoOps ==
    [][/\ op' = "remove_one" =>
            \A n \in Names :
                (~HasKey(cards, normalize_name(n)) /\ RemoveOne(n)) =>
                    (ret' = FALSE /\ cards' = cards)
       /\ op' = "set_quantity" =>
            \A n \in Names, q \in Qtys :
                (~HasKey(cards, normalize_name(n)) /\ SetQuantity(n, q)) =>
                    (ret' = FALSE /\ cards' = cards)
       /\ op' = "update_card" =>
            \A n \in Names, c \in OptCosts, t \in OptTypes :
                (~HasKey(cards, normalize_name(n)) /\ UpdateCard(n, c, t)) =>
                    (ret' = FALSE /\ cards' = cards)
       /\ op' = "rename_card" =>
            \A o \in Names, n \in Names :
                (~HasKey(cards, normalize_name(o)) /\ RenameCard(o, n)) =>
                    (ret' = FALSE /\ cards' = cards)
       /\ op' = "add_card" =>
            \A n \in Names, c \in Costs, t \in Types, q \in Qtys :
                (q <= 0 /\ AddCard(n, c, t, q)) => cards' = cards]_vars

\* C6 witness: a rename of an absent name returned False on a deck with a card.
C6_Witness ==
    /\ op = "rename_card"
    /\ branch = "absent"
    /\ ret = FALSE
    /\ cards # <<>>

\* C7: update_card of a present name returns True and writes the trimmed value of
\* each field given, "" included, keeps each field omitted, and changes neither
\* the name, key or quantity of the entry nor its slot nor any other entry.
C7_UpdateFrame ==
    [][op' = "update_card" =>
        \A n \in Names, c \in OptCosts, t \in OptTypes :
            LET k == normalize_name(n)
                updated(e) ==
                    [name |-> e.name,
                     mana_cost_raw |-> IF IsNone(c) THEN e.mana_cost_raw ELSE strip(Val(c)),
                     card_type |-> IF IsNone(t) THEN e.card_type ELSE strip(Val(t)),
                     qty |-> e.qty]
            IN  (HasKey(cards, k) /\ UpdateCard(n, c, t)) =>
                    /\ ret' = TRUE
                    /\ Len(cards') = Len(cards)
                    /\ \A i \in 1..Len(cards) :
                           cards'[i] =
                               IF cards[i].key = k
                               THEN [key |-> k, entry |-> updated(cards[i].entry)]
                               ELSE cards[i]]_vars

\* C7 witness: an update has emptied the cost of an entry and kept its type.
C7_Witness ==
    /\ op = "update_card"
    /\ ret = TRUE
    /\ \E i \in 1..Len(cards) :
           /\ cards[i].entry.mana_cost_raw = <<>>
           /\ cards[i].entry.card_type = <<"L">>


(***************************************************************************)
(* The same deck, given blank names as well                                *)
(***************************************************************************)
\* "a", the blank " " and the empty name.
BlankNames == { <<"a">>, <<" ">>, <<>> }

NextBlank ==
    \/ \E n \in BlankNames, c \in Costs, t \in Types, q \in Qtys : AddCard(n, c, t, q)
    \/ \E n \in BlankNames : RemoveOne(n)
    \/ \E n \in BlankNames, q \in Qtys : SetQuantity(n, q)
    \/ \E n \in BlankNames, c \in OptCosts, t \in OptTypes : UpdateCard(n, c, t)
    \/ \E n \in BlankNames, m \in BlankNames : RenameCard(n, m)

SpecBlank == Init /\ [][NextBlank]_vars

\* C8: a blank name given to add_card or as the new name of rename_card is
\* refused, so no entry is ever stored under the empty key.
C8_BlankNameRefused == \A i \in 1..Len(cards) : cards[i].key # <<>>

(***************************************************************************)
(* A deck of cards of many costs, and its queries                          *)
(***************************************************************************)
\* "A  b" and "b".
QueryNames == { <<"A", " ", " ", "b">>, <<"b">> }

\* "", "X", "x2", "2" and "10".
QueryCosts == { <<>>, <<"X">>, <<"x", "2">>, <<"2">>, <<"1", "0">> }

\* "L".
QueryTypes == { <<"L">> }

\* cost_eq, cost_lte, cost_gte: none, each alone, and a range.
CostBounds ==
    { <<None, None, None>>, <<Some(2), None, None>>, <<None, Some(2), None>>,
      <<None, None, Some(2)>>, <<None, Some(10), Some(2)>> }

FilterArgs(name_contains, type_contains, bounds, has_x, sort_by) ==
    [name_contains |-> name_contains, type_contains |-> type_contains,
     cost_eq |-> bounds[1], cost_lte |-> bounds[2], cost_gte |-> bounds[3],
     has_x |-> has_x, sort_by |-> sort_by]

\* The keyword arguments of filter_entries: every combination of the predicates
\* under the default order, a type no card has, and the other two orders over the
\* whole deck.
FilterParams ==
    { FilterArgs(n, t, b, x, "name") :
        n \in { None, Some(<<" ", "A", " ", "B">>) },
        t \in { None, Some(<<"l", " ">>) },
        b \in CostBounds,
        x \in { None, Some(TRUE), Some(FALSE) } }
    \cup { FilterArgs(None, Some(<<"c">>), <<None, None, None>>, None, "name") }
    \cup { FilterArgs(None, None, <<None, None, None>>, None, o) : o \in { "type", "cost" } }

NextQuery ==
    \/ \E n \in QueryNames, c \in QueryCosts, t \in QueryTypes : AddCard(n, c, t, 1)
    \/ \E p \in FilterParams : FilterEntries(p)
    \/ CostCounts

SpecQuery == Init /\ [][NextQuery]_vars

\* The stored entries.
Stored == { cards[i].entry : i \in 1..Len(cards) }

\* How often e occurs in the list es.
Occurrences(e, es) == Cardinality({ i \in 1..Len(es) : es[i] = e })

has_variable(e) == parse_mana_cost(e.mana_cost_raw).has_x

numeric_part(e) == parse_mana_cost(e.mana_cost_raw).numeric

\* Any of cost_eq, cost_lte, cost_gte is given.
CostBoundGiven(p) == ~IsNone(p.cost_eq) \/ ~IsNone(p.cost_lte) \/ ~IsNone(p.cost_gte)

\* e satisfies every predicate that p gives; a cost bound asks for a numeric
\* part within the bound on an entry without a variable.
Satisfies(e, p) ==
    /\ IsNone(p.name_contains)
           \/ Contains(normalize_name(Val(p.name_contains)), normalize_name(e.name))
    /\ IsNone(p.type_contains)
           \/ Contains(lower(strip(Val(p.type_contains))), lower(e.card_type))
    /\ IsNone(p.has_x) \/ has_variable(e) = Val(p.has_x)
    /\ CostBoundGiven(p) => (~has_variable(e) /\ ~IsNone(numeric_part(e)))
    /\ IsNone(p.cost_eq) \/ Val(numeric_part(e)) = Val(p.cost_eq)
    /\ IsNone(p.cost_lte) \/ Val(numeric_part(e)) <= Val(p.cost_lte)
    /\ IsNone(p.cost_gte) \/ Val(numeric_part(e)) >= Val(p.cost_gte)

\* C9: with a cost bound given, filter_entries returns no entry with a variable
\* and no entry without a numeric part (nothing at all when has_x=True is asked
\* as well); what it returns are the stored entries that satisfy all the given
\* predicates, each once.
C9_FilterCostExcludesVariable ==
    \A p \in FilterParams :
        LET res == filter_entries(cards, p)
        IN  /\ CostBoundGiven(p) =>
                \A i \in 1..Len(res) : ~has_variable(res[i]) /\ ~IsNone(numeric_part(res[i]))
            /\ (CostBoundGiven(p) /\ p.has_x = Some(TRUE)) => res = <<>>
            /\ \A i \in 1..Len(res) : res[i] \in Stored /\ Satisfies(res[i], p)
            /\ \A e \in Stored : Satisfies(e, p) => Occurrences(e, res) = 1
            /\ \A i \in 1..Len(res) : Occurrences(res[i], res) = 1

\* C9 witness: a filter with cost_eq=2 alone returned the card of cost "2" and
\* left out the card of cost "x2" stored before it.
C9_Witness ==
    /\ op = "filter_entries"
    /\ Len(cards) = 2
    /\ cards[1].entry.mana_cost_raw = <<"x", "2">>
    /\ cards[2].entry.mana_cost_raw = <<"2">>
    /\ ret = <<cards[2].entry>>
    /\ ret = filter_entries(cards, FilterArgs(None, None, <<Some(2), None, None>>, None, "name"))

\* e belongs to the bucket labelled b.
InBucket(e, b) ==
    IF has_variable(e) THEN b = <<"X">>
    ELSE IF ~IsNone(numeric_part(e)) THEN b = str(Val(numeric_part(e)))
    ELSE b = <<"?">>

RECURSIVE SumOver(_, _)
SumOver(S, f) ==
    IF S = {} THEN 0
    ELSE LET x == CHOOSE x \in S : TRUE IN f[x] + SumOver(S \ {x}, f)

\* C10: cost_counts lists each bucket once, a bucket for every entry, with the
\* sum of the quantities of its entries; "X" comes first, "?" last and the
\* numeric labels between them in ascending str order.
C10_CostBuckets ==
    LET cc == cost_counts(cards)
        slots == 1..Len(cards)
        qty == [i \in slots |-> cards[i].entry.qty]
    IN  /\ \A i, j \in 1..Len(cc) : cc[i].key = cc[j].key => i = j
        /\ \A s \in slots : Cardinality({ i \in 1..Len(cc) : InBucket(cards[s].entry, cc[i].key) }) = 1
        /\ \A i \in 1..Len(cc) :
               /\ \E s \in slots : InBucket(cards[s].entry, cc[i].key)
               /\ cc[i].entry = SumOver({ s \in slots : InBucket(cards[s].entry, cc[i].key) }, qty)
        /\ \A i, j \in 1..Len(cc) :
               i < j =>
                   /\ cc[j].key # <<"X">>
                   /\ cc[i].key # <<"?">>
                   /\ (cc[i].key # <<"X">> /\ cc[j].key # <<"?">>) => StrLess(cc[i].key, cc[j].key)

\* C10 witness: the card of cost "2" was added before the card of cost "X"
\* and cost_counts lists the bucket "X" first.
C10_Witness ==
    /\ op = "cost_counts"
    /\ Len(cards) = 2
    /\ cards[1].entry.mana_cost_raw = <<"2">>
    /\ cards[2].entry.mana_cost_raw = <<"X">>
    /\ Len(ret) = 2
    /\ ret[1] = [key |-> <<"X">>, entry |-> cards[2].entry.qty]
    /\ ret[2] = [key |-> <<"2">>, entry |-> cards[1].entry.qty]

(***************************************************************************)
(* matchups.py: the match ledger                                           *)
(*                                                                         *)
(* matches holds the Match objects of MatchupTracker._matches in list      *)
(* order.  No method removes an object from the list, so the position of   *)
(* an object in it identifies the object: a list the tracker hands out     *)
(* (list(self._matches), items[-n:]) is a new list of references           *)
(* [ref |-> i] to the i-th object.  An element [own |-> m] is a Match the  *)
(* caller made itself.                                                     *)
(***************************************************************************)
normalize_text(s) == join(<<" ">>, split(lower(strip(s))))

Match(opponent, result, played_at, notes) ==
    [opponent |-> opponent, result |-> result, played_at |-> played_at,
     notes |-> notes]

Ref(i) == [ref |-> i]

IsRef(x) == "ref" \in DOMAIN x

\* The Match objects a list of references points at.
Deref(ms, refs) == [i \in 1..Len(refs) |-> ms[refs[i].ref]]

\* What a method of MatchupTracker does: the list afterwards, the path taken
\* and the value returned (<<"ValueError">> when it raised).
MatchOutcome(ms, b, r) == [matches |-> ms, branch |-> b, ret |-> r]

ValueError == <<"ValueError">>

Results == { <<"W">>, <<"L">>, <<"D">> }

add_match_no_result_check(ms, opponent, result, notes, now) ==
    LET opp == strip(opponent)
        res == upper(strip(result))
    IN  IF opp = <<>> THEN MatchOutcome(ms, "blank_opponent", ValueError)
        ELSE MatchOutcome(Append(ms, Match(opp, res, now, strip(notes))),
                          "appended", None)

add_match_prepend(ms, opponent, result, notes, now) ==
    LET opp == strip(opponent)
        res == upper(strip(result))
    IN  IF res \notin Results THEN MatchOutcome(ms, "bad_result", ValueError)
        ELSE IF opp = <<>> THEN MatchOutcome(ms, "blank_opponent", ValueError)
        ELSE MatchOutcome(<<Match(opp, res, now, strip(notes))>> \o ms,
                          "appended", None)

add_match(ms, opponent, result, notes, now) ==
    LET opp == strip(opponent)
        res == upper(strip(result))
    IN  IF res \notin Results THEN MatchOutcome(ms, "bad_result", ValueError)
        ELSE IF opp = <<>> THEN MatchOutcome(ms, "blank_opponent", ValueError)
        ELSE MatchOutcome(Append(ms, Match(opp, res, now, strip(notes))),
                          "appended", None)

\* list(self._matches): a new list of the same objects.
all_matches(ms) == [i \in 1..Len(ms) |-> Ref(i)]

\* items[-n:] on a list of length m keeps the positions SliceStart(m, n)+1 .. m:
\* a negative start -n counts from the end and is clamped at 0, a start of 0
\* (n = 0) is the beginning, a positive start (n < 0) is clamped at m.
SliceStart(m, n) ==
    IF n > 0 THEN (IF m - n < 0 THEN 0 ELSE m - n)
    ELSE IF -n > m THEN m ELSE -n

LastN(items, n) == SubSeq(items, SliceStart(Len(items), n) + 1, Len(items))

\* items is self._matches or the filtered list; the slice is a new list of
\* the same objects.
recent(ms, n, opponent_filter) ==
    LET all == [i \in 1..Len(ms) |-> Ref(i)]
        keep(r) == Contains(normalize_text(Val(opponent_filter)),
                            normalize_text(ms[r.ref].opponent))
        items == IF Truthy(opponent_filter) THEN SelectSeq(all, keep) ELSE all
    IN  LastN(items, n)

\* sum(1 for m in self._matches if m.result == r)
RECURSIVE CountResult(_, _)
CountResult(ms, r) ==
    IF ms = <<>> THEN 0
    ELSE (IF Head(ms).result = r THEN 1 ELSE 0) + CountResult(Tail(ms), r)

overall_record(ms) ==
    <<CountResult(ms, <<"W">>), CountResult(ms, <<"L">>), CountResult(ms, <<"D">>)>>

\* A Python float that is a quotient of small integers, kept as the exact
\* fraction num/den in lowest terms (den > 0): w + 0.5 * d is exact in
\* binary floating point, and the division and the product are each within
\* one rounding of the fraction.
RECURSIVE GCD(_, _)
GCD(a, b) == IF b = 0 THEN a ELSE GCD(b, a % b)

Frac(n, d) == LET g == GCD(n, d) IN [num |-> n \div g, den |-> d \div g]

Float(n) == [num |-> n, den |-> 1]

Half == [num |-> 1, den |-> 2]

FAdd(x, y) == Frac(x.num * y.den + y.num * x.den, x.den * y.den)

FMul(x, y) == Frac(x.num * y.num, x.den * y.den)

FDiv(x, y) == Frac(x.num * y.den, x.den * y.num)

_winrate_no_draws(w, l, d) ==
    LET total == w + l + d
    IN  IF total = 0 THEN Float(0)
        ELSE FMul(FDiv(Float(w), Float(total)), Float(100))

_winrate(w, l, d) ==
    LET total == w + l + d
    IN  IF total = 0 THEN Float(0)
        ELSE FMul(FDiv(FAdd(Float(w), FMul(Half, Float(d))), Float(total)),
                  Float(100))

winrate_overall(ms) ==
    LET r == overall_record(ms) IN _winrate(r[1], r[2], r[3])

\* The first loop of record_by_opponent: bucket, key -> (display, w, l, d).
RECURSIVE Buckets(_, _)
Buckets(bucket, ms) ==
    IF ms = <<>> THEN bucket
    ELSE LET m == Head(ms)
             key == normalize_text(m.opponent)
             b0 == IF HasKey(bucket, key) THEN bucket
                   ELSE DictSet(bucket, key,
                                [display |-> m.opponent, w |-> 0, l |-> 0, d |-> 0])
             old == Lookup(b0, key)
             new == IF m.result = <<"W">> THEN [old EXCEPT !.w = @ + 1]
                    ELSE IF m.result = <<"L">> THEN [old EXCEPT !.l = @ + 1]
                    ELSE [old EXCEPT !.d = @ + 1]
         IN  Buckets(DictSet(b0, key, new), Tail(ms))

\* The second loop: out[display] = (w, l, d).
RECURSIVE ByDisplay(_, _)
ByDisplay(out, bucket) ==
    IF bucket = <<>> THEN out
    ELSE LET e == Head(bucket).entry
         IN  ByDisplay(DictSet(out, e.display, <<e.w, e.l, e.d>>), Tail(bucket))

IntStrLess(a, b) == a[1] < b[1] \/ (a[1] = b[1] /\ StrLess(a[2], b[2]))

record_by_opponent_key_raw(kv) ==
    <<-(kv.entry[1] + kv.entry[2] + kv.entry[3]), kv.key>>

record_by_opponent_key(kv) ==
    <<-(kv.entry[1] + kv.entry[2] + kv.entry[3]), lower(kv.key)>>

\* The rows of the returned dict in order: [key |-> display, entry |-> (w, l, d)].
record_by_opponent(ms) ==
    SortedBy(ByDisplay(<<>>, Buckets(<<>>, ms)), record_by_opponent_key, IntStrLess)

winrate_by_opponent(ms) ==
    LET rows == record_by_opponent(ms)
    IN  [i \in 1..Len(rows) |->
            <<rows[i].key, rows[i].entry[1], rows[i].entry[2], rows[i].entry[3],
              _winrate(rows[i].entry[1], rows[i].entry[2], rows[i].entry[3])>>]

(***************************************************************************)
(* Bounds and inputs of the ledger                                         *)
(***************************************************************************)
\* Longest ledger explored (a Python list is unbounded).
MaxMatches == 3

\* Opponents given to add_match are "B", and "a  B" and " A b ", which share
\* the normalized text "a b"; " " is blank.
BlankOpponent == <<" ">>

\* Results given to add_match: "w", " l" and "D " are accepted; "x" is not.
GoodResults == { <<"w">>, <<" ", "l">>, <<"D", " ">> }

BadResult == <<"x">>

\* The calls of add_match: "B" with every accepted result, "a  B" won and
\* lost, " A b " drawn, and one call with each kind of rejected argument.
MatchArgs ==
    { <<<<"B">>, r>> : r \in GoodResults }
    \cup { <<<<"a", " ", " ", "B">>, <<"w">>>>,
           <<<<"a", " ", " ", "B">>, <<" ", "l">>>>,
           <<<<" ", "A", " ", "b", " ">>, <<"D", " ">>>> }
    \cup { <<BlankOpponent, <<"w">>>>, <<<<"B">>, BadResult>> }

NotesGiven == <<"c", " ">>

\* What _now_iso() returns; the value plays no part in any method.
Stamp == <<"1">>

\* n given to recent.
RecentNs == { 0, 1, 2 }

\* opponent_filter given to recent: None, "", " A" and "a  b".
OpponentFilters == { None, Some(<<>>), Some(<<" ", "A">>), Some(<<"a", " ", " ", "b">>) }

(***************************************************************************)
(* Actions: one per method of MatchupTracker                               *)
(***************************************************************************)
AddMatch(opponent, result, notes, now) ==
    LET o == add_match(matches, opponent, result, notes, now)
    IN  /\ Len(o.matches) <= MaxMatches
        /\ matches' = o.matches
        /\ op' = "add_match"
        /\ branch' = o.branch
        /\ ret' = o.ret
        /\ UNCHANGED cards

AllMatches ==
    /\ matches' = matches
    /\ op' = "all_matches"
    /\ branch' = "query"
    /\ ret' = all_matches(matches)
    /\ UNCHANGED cards

Recent(n, opponent_filter) ==
    /\ matches' = matches
    /\ op' = "recent"
    /\ branch' = "query"
    /\ ret' = recent(matches, n, opponent_filter)
    /\ UNCHANGED cards

OverallRecord ==
    /\ matches' = matches
    /\ op' = "overall_record"
    /\ branch' = "query"
    /\ ret' = overall_record(matches)
    /\ UNCHANGED cards

WinrateOverall ==
    /\ matches' = matches
    /\ op' = "winrate_overall"
    /\ branch' = "query"
    /\ ret' = winrate_overall(matches)
    /\ UNCHANGED cards

RecordByOpponent ==
    /\ matches' = matches
    /\ op' = "record_by_opponent"
    /\ branch' = "query"
    /\ ret' = record_by_opponent(matches)
    /\ UNCHANGED cards

WinrateByOpponent ==
    /\ matches' = matches
    /\ op' = "winrate_by_opponent"
    /\ branch' = "query"
    /\ ret' = winrate_by_opponent(matches)
    /\ UNCHANGED cards

NextMatch ==
    \/ \E a \in MatchArgs : AddMatch(a[1], a[2], NotesGiven, Stamp)
    \/ AllMatches
    \/ \E n \in RecentNs, f \in OpponentFilters : Recent(n, f)
    \/ OverallRecord
    \/ WinrateOverall
    \/ RecordByOpponent
    \/ WinrateByOpponent

SpecMatch == Init /\ [][NextMatch]_vars

(***************************************************************************)
(* Properties of the ledger                                                *)
(***************************************************************************)
IsPrefix(s, t) == Len(s) <= Len(t) /\ SubSeq(t, 1, Len(s)) = s

\* C11: add_match(opponent, result, notes) raises ValueError and leaves the
\* ledger unchanged when result, trimmed and uppercased, is not W, L or D, or
\* when opponent is empty after trimming; otherwise it appends exactly one
\* record at the end.  So every record of the ledger has a result in
\* {W, L, D} and a non-blank opponent.
C11_AddMatchValidates ==
    [][op' = "add_match" =>
        /\ \A a \in MatchArgs :
              AddMatch(a[1], a[2], NotesGiven, Stamp) =>
                  LET opponent == strip(a[1])
                      result == upper(strip(a[2]))
                  IN  IF result \notin { <<"W">>, <<"L">>, <<"D">> } \/ opponent = <<>>
                      THEN ret' = ValueError /\ matches' = matches
                      ELSE /\ ret' = None
                           /\ Len(matches') = Len(matches) + 1
                           /\ IsPrefix(matches, matches')
                           /\ matches'[Len(matches')].opponent = opponent
                           /\ matches'[Len(matches')].result = result
        /\ \A i \in 1..Len(matches') :
              /\ matches'[i].result \in { <<"W">>, <<"L">>, <<"D">> }
              /\ strip(matches'[i].opponent) # <<>>
      ]_vars

\* A call refused for its result after two records were appended, one of them
\* given as " l".
C11_Witness ==
    /\ op = "add_match"
    /\ branch = "bad_result"
    /\ ret = ValueError
    /\ Len(matches) = 2
    /\ matches[2].result = <<"L">>

\* C12: the ledger is append-only.  Over every step of add_match,
\* all_matches, recent, overall_record, winrate_overall, record_by_opponent
\* and winrate_by_opponent the records before the step are a prefix of the
\* records after it, and only an add_match that appends lengthens the list,
\* by one.
C12_AppendOnly ==
    [][/\ IsPrefix(matches, matches')
       /\ matches' # matches =>
             /\ op' = "add_match"
             /\ branch' = "appended"
             /\ Len(matches') = Len(matches) + 1
      ]_vars

\* The grouped statistics were asked of a ledger of two different records.
C12_Witness ==
    /\ op = "winrate_by_opponent"
    /\ Len(matches) = 2
    /\ matches[1] # matches[2]

(***************************************************************************)
(* The caller of all_matches                                               *)
(*                                                                         *)
(* After all_matches the caller holds ret, a list of its own whose         *)
(* elements are the Match objects of the ledger.  Match is a dataclass     *)
(* that is not frozen, so an attribute of an object can be assigned.       *)
(***************************************************************************)
HoldsList == op \in {"all_matches", "caller_append", "caller_pop", "caller_set_result"}

\* returned.append(Match(...))
CallerAppend(m) ==
    /\ HoldsList
    /\ Len(ret) <= MaxMatches
    /\ ret' = Append(ret, [own |-> m])
    /\ op' = "caller_append"
    /\ branch' = "caller"
    /\ UNCHANGED <<cards, matches>>

\* returned.pop()
CallerPop ==
    /\ HoldsList
    /\ ret # <<>>
    /\ ret' = SubSeq(ret, 1, Len(ret) - 1)
    /\ op' = "caller_pop"
    /\ branch' = "caller"
    /\ UNCHANGED <<cards, matches>>

\* returned[i].result = result: the assignment reaches the object itself,
\* which for a reference is the object in the ledger's list.
CallerSetResult(i, result) ==
    /\ HoldsList
    /\ i \in 1..Len(ret)
    /\ IF IsRef(ret[i])
       THEN /\ matches' = [matches EXCEPT ![ret[i].ref].result = result]
            /\ ret' = ret
       ELSE /\ matches' = matches
            /\ ret' = [ret EXCEPT ![i].own.result = result]
    /\ op' = "caller_set_result"
    /\ branch' = "caller"
    /\ UNCHANGED cards

NextAlias ==
    \/ \E r \in GoodResults : AddMatch(<<"B">>, r, NotesGiven, Stamp)
    \/ AllMatches
    \/ CallerAppend(Match(<<"B">>, <<"W">>, Stamp, <<>>))
    \/ CallerPop
    \/ \E i \in 1..MaxMatches + 1 : CallerSetResult(i, <<"x">>)

SpecAlias == Init /\ [][NextAlias]_vars

\* C13: what all_matches returns is a defensive copy.  No change the caller
\* makes through the returned value (appending to the returned list, removing
\* from it, assigning a field of a returned record) alters the ledger's list
\* or a field of one of its records.
C13_DefensiveCopy ==
    [][op' \in {"caller_append", "caller_pop", "caller_set_result"} =>
          matches' = matches]_vars

\* The positions of the records recent is asked for: all of them without a
\* filter, else those whose normalized opponent contains the normalized filter.
Matching(opponent_filter) ==
    { i \in 1..Len(matches) :
        \/ IsNone(opponent_filter)
        \/ Contains(normalize_text(Val(opponent_filter)),
                    normalize_text(matches[i].opponent)) }

Min(a, b) == IF a <= b THEN a ELSE b

\* refs are the last k of the positions S, oldest first.
IsLastOf(refs, k, S) ==
    /\ Len(refs) = k
    /\ \A j \in 1..Len(refs) : IsRef(refs[j]) /\ refs[j].ref \in S
    /\ \A j \in 1..Len(refs) - 1 : refs[j].ref < refs[j + 1].ref
    /\ \A j \in 1..Len(refs) : \A i \in S :
          i > refs[j].ref => \E h \in 1..Len(refs) : refs[h].ref = i

\* C14: recent(n, opponent_filter) returns, oldest first, exactly the last
\* min(n, m) of the m records whose normalized opponent contains the
\* normalized filter (of all records without a filter); for every n >= 0 the
\* result holds at most n records.
C14_RecentLastN ==
    [][op' = "recent" =>
        \A n \in RecentNs, f \in OpponentFilters :
            (n >= 0 /\ Recent(n, f)) =>
                /\ IsLastOf(ret', Min(n, Cardinality(Matching(f))), Matching(f))
                /\ Len(ret') <= n
      ]_vars

\* rows, a sequence of <<display, wins, losses, draws>>, is the record by
\* opponent of the ledger.  Group(k) is the positions of the records whose
\* opponent normalizes to k.
IsRecordByOpponent(rows) ==
    LET norm == [i \in 1..Len(matches) |-> normalize_text(matches[i].opponent)]
        rowkey == [j \in 1..Len(rows) |-> normalize_text(rows[j][1])]
        rowname == [j \in 1..Len(rows) |-> lower(rows[j][1])]
        keys == { norm[i] : i \in 1..Len(matches) }
        Group(k) == { i \in 1..Len(matches) : norm[i] = k }
        GroupCount(k, result) == Cardinality({ i \in Group(k) : matches[i].result = result })
        total(j) == rows[j][2] + rows[j][3] + rows[j][4]
    IN  /\ Len(rows) = Cardinality(keys)
        /\ \A k \in keys : \E j \in 1..Len(rows) : rowkey[j] = k
        /\ \A j \in 1..Len(rows) :
              /\ Group(rowkey[j]) # {}
              /\ \A i \in Group(rowkey[j]) :
                    (\A h \in Group(rowkey[j]) : i <= h) => rows[j][1] = matches[i].opponent
              /\ rows[j][2] = GroupCount(rowkey[j], <<"W">>)
              /\ rows[j][3] = GroupCount(rowkey[j], <<"L">>)
              /\ rows[j][4] = GroupCount(rowkey[j], <<"D">>)
        /\ \A j \in 1..Len(rows) : \A h \in 1..Len(rows) :
              j < h =>
                  \/ total(j) > total(h)
                  \/ /\ total(j) = total(h)
                     /\ StrLess(rowname[j], rowname[h])

\* C15: record_by_opponent has one row per distinct normalized opponent; the
\* row's name is the opponent of the first record of the group, its counts
\* cover the group's records, and rows run by descending total games, ties by
\* ascending lowercased name.  winrate_by_opponent has the same rows in the
\* same order.
C15_RecordByOpponent ==
    [][/\ op' = "record_by_opponent" =>
             IsRecordByOpponent(
                 [j \in 1..Len(ret') |->
                     <<ret'[j].key, ret'[j].entry[1], ret'[j].entry[2], ret'[j].entry[3]>>])
       /\ op' = "winrate_by_opponent" =>
             IsRecordByOpponent([j \in 1..Len(ret') |-> SubSeq(ret'[j], 1, 4)])
      ]_vars

\* "B" was recorded before "a  B", one game each: the rows come back with
\* "a  B" first.
C15_Witness ==
    /\ op = "record_by_opponent"
    /\ Len(matches) = 2
    /\ matches[1].opponent = <<"B">>
    /\ Len(ret) = 2
    /\ ret[1].key = <<"a", " ", " ", "B">>

\* How many records of the ledger have this result.
Tally(result) == Cardinality({ i \in 1..Len(matches) : matches[i].result = result })

\* C16: winrate_overall is (wins + 0.5 * draws) / total * 100 over the whole
\* ledger, 0.0 when the ledger is empty; it lies between 0 and 100, and for
\* one win, one loss and one draw it is exactly 50.
C16_WinrateOverall ==
    [][op' = "winrate_overall" =>
        LET w == Tally(<<"W">>)
            l == Tally(<<"L">>)
            d == Tally(<<"D">>)
            total == Len(matches)
        IN  /\ ret'.den > 0
            /\ total = 0 => ret'.num = 0
            /\ total > 0 => ret'.num * 2 * total = (2 * w + d) * 100 * ret'.den
            /\ 0 <= ret'.num /\ ret'.num <= 100 * ret'.den
            /\ (w = 1 /\ l = 1 /\ d = 1) => ret' = [num |-> 50, den |-> 1]
      ]_vars

\* The win rate of one win, one loss and one draw was asked for.
C16_Witness ==
    /\ op = "winrate_overall"
    /\ Len(matches) = 3
    /\ Tally(<<"W">>) = 1
    /\ Tally(<<"L">>) = 1
    /\ Tally(<<"D">>) = 1
    /\ ret = [num |-> 50, den |-> 1]

(***************************************************************************)
(* Properties of the collection: loading and counting                      *)
(***************************************************************************)
\* The quantity an item of a snapshot is to be loaded with: its qty if that is
\* an integer of at least 1, else 1.
QtyToLoad(item) ==
    IF item.qty.tag = "int" /\ item.qty.val >= 1 THEN item.qty.val ELSE 1

ItemKey(item) == normalize_name(IF IsNone(item.name) THEN <<>> ELSE Val(item.name))

\* C17: loading a snapshot of the right shape gives every listed entry whose
\* qty is missing or not an integer the quantity 1 and raises a qty below 1
\* to 1, and loads the other entries of the document all the same: every
\* listed entry is in the loaded collection, with the quantity of the last
\* item of its key.
C17_LoadCoercesQuantity ==
    [][op' = "load" =>
        \A doc \in Docs :
            (doc.kind \in {"object", "list"} /\ Load(doc)) =>
                \A i \in 1..Len(doc.items) :
                    doc.items[i].is_dict =>
                        \E s \in 1..Len(cards') :
                            /\ cards'[s].key = ItemKey(doc.items[i])
                            /\ \E h \in i..Len(doc.items) :
                                  /\ doc.items[h].is_dict
                                  /\ ItemKey(doc.items[h]) = ItemKey(doc.items[i])
                                  /\ \A g \in (h + 1)..Len(doc.items) :
                                        doc.items[g].is_dict =>
                                            ItemKey(doc.items[g]) # ItemKey(doc.items[i])
                                  /\ cards'[s].entry.qty = QtyToLoad(doc.items[h])
      ]_vars

\* key=lambda kv: (-kv[1], kv[0].lower())
type_counts_key(kv) == <<-kv.entry, lower(kv.key)>>

Unknown == <<"U", "n", "k", "n", "o", "w", "n">>

\* Deck.type_counts: the rows of the returned dict in order.
type_counts(d) ==
    LET es == Values(d)
        pairs == [i \in 1..Len(es) |->
                     <<strip(IF es[i].card_type # <<>> THEN es[i].card_type ELSE Unknown),
                       es[i].qty>>]
    IN  SortedBy(CountInto(<<>>, pairs), type_counts_key, IntStrLess)

\* The sum of the counts of the rows of a counts dict.
RECURSIVE SumCounts(_)
SumCounts(rows) == IF rows = <<>> THEN 0 ELSE Head(rows).entry + SumCounts(Tail(rows))

\* C18: in every state reached by mutations of the collection the counts of
\* type_counts sum to deck_size and the counts of cost_counts sum to
\* deck_size: each entry's quantity is counted in one type and one bucket.
C18_CountsSumToSize ==
    /\ SumCounts(type_counts(cards)) = SumQty(Values(cards))
    /\ SumCounts(cost_counts(cards)) = SumQty(Values(cards))

\* Two entries of one type and one cost bucket, one of them twice in the deck.
C18_Witness ==
    /\ Len(cards) = 2
    /\ cards[1].entry.card_type = cards[2].entry.card_type
    /\ cost_bucket(cards[1].entry) = cost_bucket(cards[2].entry)
    /\ cards[1].entry.qty = 2
    /\ Len(type_counts(cards)) = 1
    /\ type_counts(cards)[1].entry = 3

====
